---- MODULE Spec2Model ----
(***************************************************************************)
(* A model of the PubMed fetcher: get_paper.py (fetch_pubmed_data,         *)
(* fetch_paper_details, parse_paper_details, save_to_csv, main) and        *)
(* cli.py (save_to_csv).                                                   *)
(*                                                                         *)
(* A Python str is a sequence of one-character strings, so that lower(),   *)
(* split(), strip(), join(), the "in" operator and the csv quoting are     *)
(* computed character by character.  None is a value different from every *)
(* str.  The run of main() is one action; its inputs (the two HTTP         *)
(* replies and the behaviour of the output device) are drawn inside it.    *)
(***************************************************************************)
EXTENDS Integers, Sequences, FiniteSets, TLC

VARIABLES pc, op, exc, search_reply, fetch_reply, requests, stdout,
          pubmed_ids, xml_data, parsed_data, loop_locals, save_arg,
          file0, file

vars == <<pc, op, exc, search_reply, fetch_reply, requests, stdout,
          pubmed_ids, xml_data, parsed_data, loop_locals, save_arg,
          file0, file>>

----------------------------------------------------------------------------
(* Bounds of the model. *)

\* the largest number of PubmedArticle nodes in a fetched document
MaxArticles == 2

\* the largest number of Author nodes in an article
MaxAuthors == 2

----------------------------------------------------------------------------
(* Python values. *)

\* Python's None: a one-element tuple that is no str (a str holds only
\* one-character strings)
None == <<"<None>">>

\* "no such element": what Element.find returns for a missing node, kept
\* apart from an element that is present and has no text
Absent == <<"<Absent>">>

Whitespace == {" ", "\t", "\n", "\r", "\f"}

Upper == <<"A", "B", "C", "D", "E", "F", "G", "H", "I", "J", "K", "L", "M",
           "N", "O", "P", "Q", "R", "S", "T", "U", "V", "W", "X", "Y", "Z">>

Lower == <<"a", "b", "c", "d", "e", "f", "g", "h", "i", "j", "k", "l", "m",
           "n", "o", "p", "q", "r", "s", "t", "u", "v", "w", "x", "y", "z">>

\* str.lower() of one character
LowerChar(c) ==
    IF \E i \in 1..Len(Upper) : Upper[i] = c
    THEN Lower[CHOOSE i \in 1..Len(Upper) : Upper[i] = c]
    ELSE c

\* str.lower()
LowerStr(s) == [i \in 1..Len(s) |-> LowerChar(s[i])]

\* sub in s
StrIn(sub, s) ==
    \E i \in 0..(Len(s) - Len(sub)) : SubSeq(s, i + 1, i + Len(sub)) = sub

\* s.split(): the maximal runs of non-whitespace characters, in order
RECURSIVE SplitFrom(_, _, _, _)
SplitFrom(s, i, cur, acc) ==
    IF i > Len(s) THEN (IF cur = <<>> THEN acc ELSE Append(acc, cur))
    ELSE IF s[i] \in Whitespace
         THEN SplitFrom(s, i + 1, <<>>, IF cur = <<>> THEN acc ELSE Append(acc, cur))
         ELSE SplitFrom(s, i + 1, Append(cur, s[i]), acc)

Split(s) == SplitFrom(s, 1, <<>>, <<>>)

\* s.strip(): s without its leading and trailing whitespace
Strip(s) ==
    LET keep == {i \in 1..Len(s) : s[i] \notin Whitespace}
    IN  IF keep = {} THEN <<>>
        ELSE SubSeq(s, CHOOSE i \in keep : \A j \in keep : i <= j,
                       CHOOSE i \in keep : \A j \in keep : j <= i)

\* sep.join(list)
RECURSIVE Join(_, _)
Join(sep, list) ==
    IF list = <<>> THEN <<>>
    ELSE IF Len(list) = 1 THEN list[1]
    ELSE list[1] \o sep \o Join(sep, Tail(list))

----------------------------------------------------------------------------
(* String literals of the program. *)

K_PubMedID == <<"P", "u", "b", "M", "e", "d", "I", "D">>
K_Title == <<"T", "i", "t", "l", "e">>
K_PublicationDate == <<"P", "u", "b", "l", "i", "c", "a", "t", "i", "o", "n", " ", "D", "a", "t", "e">>
K_Authors == <<"A", "u", "t", "h", "o", "r", "s">>
K_NonAcademicAuthors == <<"N", "o", "n", "-", "a", "c", "a", "d", "e", "m", "i", "c", " ", "A", "u", "t", "h", "o", "r", "s">>
K_CompanyAffiliations == <<"C", "o", "m", "p", "a", "n", "y", " ", "A", "f", "f", "i", "l", "i", "a", "t", "i", "o", "n", "s">>
K_Email == <<"E", "m", "a", "i", "l">>

\* the fixed column list of get_paper.save_to_csv
keys == <<K_PubMedID, K_Title, K_PublicationDate, K_Authors,
          K_NonAcademicAuthors, K_CompanyAffiliations, K_Email>>

Unknown == <<"U", "n", "k", "n", "o", "w", "n">>
NotAvailable == <<"N", "o", "t", " ", "A", "v", "a", "i", "l", "a", "b", "l", "e">>

\* the keywords of the non-academic heuristic
Keywords == {<<"c", "o", "m", "p", "a", "n", "y">>,
             <<"p", "h", "a", "r", "m", "a">>,
             <<"b", "i", "o", "t", "e", "c", "h">>}

At == <<"@">>
Dash == <<"-">>
Space == <<" ">>
CommaSpace == <<",", " ">>
SemicolonSpace == <<";", " ">>

----------------------------------------------------------------------------
(* A dict is the sequence of its (key, value) pairs in insertion order. *)

DictKeys(d) == [i \in 1..Len(d) |-> d[i][1]]

HasKey(d, k) == \E i \in 1..Len(d) : d[i][1] = k

\* d.get(k, default)
DictGet(d, k, default) ==
    IF HasKey(d, k) THEN d[CHOOSE i \in 1..Len(d) : d[i][1] = k][2] ELSE default

----------------------------------------------------------------------------
(* The element tree of a fetched document, as far as the program reads it. *)
(* An article is [PMID, ArticleTitle, PubDate, Authors]; PMID and          *)
(* ArticleTitle are Absent, None (an element without text) or a str;       *)
(* PubDate is [present, Year, Month, Day], present telling whether the     *)
(* article has a PubDate node, the others Absent, None or a str; an author *)
(* is [LastName, ForeName, Affiliations], Affiliations being the .text     *)
(* (None or a str) of each AffiliationInfo/Affiliation under it, in        *)
(* document order.                                                         *)

\* Element.findtext(path, default): default when no element matches, "" when
\* the first match has no text, else its text
FindText(el, default) ==
    IF el = Absent THEN default ELSE IF el = None THEN <<>> ELSE el

\* author.find(".//AffiliationInfo/Affiliation") and, of the element found,
\* its .text: Absent when no element matches, else the first match's text
FindAffiliation(author) ==
    IF author.Affiliations = <<>> THEN Absent ELSE author.Affiliations[1]

----------------------------------------------------------------------------
(* parse_paper_details *)

\* "@" in affiliation_text
HasEmail(affiliation_text) == StrIn(At, affiliation_text)

\* affiliation_text.split()[-1]
ExtractEmail(affiliation_text) ==
    LET tokens == Split(affiliation_text) IN tokens[Len(tokens)]

\* the keyword test without lower()
IsNonAcademicCaseSensitive(affiliation_text) ==
    \E keyword \in Keywords : StrIn(keyword, affiliation_text)

\* any(keyword in affiliation_text.lower() for keyword in [...])
IsNonAcademic(affiliation_text) ==
    \E keyword \in Keywords : StrIn(keyword, LowerStr(affiliation_text))

\* f"{firstname} {lastname}".strip()
FullName(author) ==
    LET lastname  == FindText(author.LastName, <<>>)
        firstname == FindText(author.ForeName, <<>>)
    IN  Strip(firstname \o Space \o lastname)

\* the body of "for author in ...": the loop's lists after one more author;
\* raised is set when `"@" in affiliation_text` is evaluated on None
AuthorStep(acc, author) ==
    LET fullname    == FullName(author)
        affiliation == FindAffiliation(author)
        authors     == Append(acc.authors, fullname)
    IN  IF acc.raised THEN acc
        ELSE IF affiliation = Absent THEN [acc EXCEPT !.authors = authors]
        ELSE IF affiliation = None
             THEN [acc EXCEPT !.authors = authors, !.raised = TRUE]
        ELSE [authors |-> authors,
              emails  |-> IF HasEmail(affiliation)
                          THEN Append(acc.emails, ExtractEmail(affiliation))
                          ELSE acc.emails,
              non_academic_authors |->
                  IF IsNonAcademic(affiliation)
                  THEN Append(acc.non_academic_authors, fullname)
                  ELSE acc.non_academic_authors,
              company_affiliations |->
                  IF IsNonAcademic(affiliation)
                  THEN Append(acc.company_affiliations, affiliation)
                  ELSE acc.company_affiliations,
              raised |-> FALSE]

RECURSIVE AuthorLoop(_, _)
AuthorLoop(acc, todo) ==
    IF todo = <<>> THEN acc ELSE AuthorLoop(AuthorStep(acc, Head(todo)), Tail(todo))

\* the four lists after the author loop of one article
AuthorLists(article) ==
    AuthorLoop([authors |-> <<>>, non_academic_authors |-> <<>>,
                company_affiliations |-> <<>>, emails |-> <<>>,
                raised |-> FALSE],
               article.Authors)

\* the date without the `if year` test
PublicationDateAlwaysFormatted(article) ==
    LET pub_date == article.PubDate IN
    IF pub_date.present
    THEN FindText(pub_date.Year, <<>>) \o Dash \o FindText(pub_date.Month, <<>>)
         \o Dash \o FindText(pub_date.Day, <<>>)
    ELSE Unknown

\* paper["Publication Date"]
PublicationDate(article) ==
    LET pub_date == article.PubDate IN
    IF pub_date.present
    THEN LET year  == FindText(pub_date.Year, <<>>)
             month == FindText(pub_date.Month, <<>>)
             day   == FindText(pub_date.Day, <<>>)
         IN  IF year # <<>> THEN year \o Dash \o month \o Dash \o day ELSE Unknown
    ELSE Unknown

\* emails[-1] in place of emails[0]
LastEmail(emails) == IF emails # <<>> THEN emails[Len(emails)] ELSE NotAvailable

\* paper["Email"]
FirstEmail(emails) == IF emails # <<>> THEN emails[1] ELSE NotAvailable

\* the dict built for one article, l being the lists of its author loop
Paper(article, l) ==
    << <<K_PubMedID, FindText(article.PMID, None)>>,
       <<K_Title, FindText(article.ArticleTitle, None)>>,
       <<K_PublicationDate, PublicationDate(article)>>,
       <<K_Authors, Join(CommaSpace, l.authors)>>,
       <<K_NonAcademicAuthors, Join(CommaSpace, l.non_academic_authors)>>,
       <<K_CompanyAffiliations, Join(SemicolonSpace, l.company_affiliations)>>,
       <<K_Email, FirstEmail(l.emails)>> >>

\* parse_paper_details(xml_data): ET.fromstring raises ParseError on text that
\* is not well-formed (the empty text included); an article whose author loop
\* raises ends the call with TypeError; otherwise one dict per article
Papers(articles, lists) ==
    IF \E i \in 1..Len(articles) : lists[i].raised
    THEN [exc |-> "TypeError", papers |-> <<>>, locals |-> <<>>]
    ELSE [exc |-> "none",
          papers |-> [i \in 1..Len(articles) |-> Paper(articles[i], lists[i])],
          locals |-> lists]

parse_paper_details(text) ==
    IF text.kind # "doc"
    THEN [exc |-> "ParseError", papers |-> <<>>, locals |-> <<>>]
    ELSE Papers(text.articles,
                [i \in 1..Len(text.articles) |-> AuthorLists(text.articles[i])])

----------------------------------------------------------------------------
(* The csv module: a writer with the default dialect (delimiter ",",       *)
(* quotechar '"', doubled quotes, QUOTE_MINIMAL, lineterminator "\r\n"),   *)
(* and DictWriter on top of it.                                            *)

CRLF == <<"\r", "\n">>
Comma == <<",">>
Quote == <<"\"">>

\* the characters that make the writer quote a field
NeedsQuote == {",", "\"", "\r", "\n"}

\* the concatenation of pieces[lo..hi]
RECURSIVE Concat(_, _, _)
Concat(pieces, lo, hi) ==
    IF lo > hi THEN <<>>
    ELSE IF lo = hi THEN pieces[lo]
    ELSE LET mid == (lo + hi) \div 2
         IN  Concat(pieces, lo, mid) \o Concat(pieces, mid + 1, hi)

\* every quote character of s doubled
DoubleQuotes(s) ==
    Concat([i \in 1..Len(s) |-> IF s[i] = "\"" THEN <<"\"", "\"">> ELSE <<s[i]>>],
           1, Len(s))

\* a field quoted without doubling the quotes inside it
CsvFieldQuotesNotDoubled(v) ==
    LET s == IF v = None THEN <<>> ELSE v
    IN  IF \E i \in 1..Len(s) : s[i] \in NeedsQuote
        THEN Quote \o s \o Quote
        ELSE s

\* one field as the writer emits it: None is written as the empty string; a
\* field holding a delimiter, a quote or a line break is quoted
CsvField(v) ==
    LET s == IF v = None THEN <<>> ELSE v
    IN  IF \E i \in 1..Len(s) : s[i] \in NeedsQuote
        THEN Quote \o DoubleQuotes(s) \o Quote
        ELSE s

\* writer.writerow(values): a row that is a single empty field is written
\* as "" so that it is not an empty line
CsvRow(values) ==
    LET fields == [i \in 1..Len(values) |-> CsvField(values[i])]
    IN  IF Len(fields) = 1 /\ fields[1] = <<>>
        THEN Quote \o Quote \o CRLF
        ELSE Join(Comma, fields) \o CRLF

\* DictWriter._dict_to_list raises ValueError for a dict with a key that is
\* no fieldname (extrasaction="raise")
WrongFields(fieldnames, rowdict) ==
    \E i \in 1..Len(rowdict) :
        \A j \in 1..Len(fieldnames) : fieldnames[j] # rowdict[i][1]

\* DictWriter._dict_to_list: rowdict.get(key, restval) for each fieldname
DictToList(fieldnames, rowdict) ==
    [j \in 1..Len(fieldnames) |-> DictGet(rowdict, fieldnames[j], <<>>)]

----------------------------------------------------------------------------
(* The output file and save_to_csv (both variants).                        *)
(* The content of the destination is NoFile or a str.  The device is       *)
(* io = [open_ok, quota]: whether open(filename, "w") succeeds, and how    *)
(* many lines it accepts before a write raises OSError.  Leaving the with  *)
(* block closes the file on every path, so what was written stays.         *)

NoFile == <<"<NoFile>">>

\* a message printed to standard output: its text and its one argument
Msg(text, arg) == <<text, arg>>

FileName == "results.csv"

\* the lines writeheader() and writerows() produce, up to the first row that
\* makes DictWriter raise ValueError
CsvLines(fieldnames, rows) ==
    LET bad  == {i \in 1..Len(rows) : WrongFields(fieldnames, rows[i])}
        good == IF bad = {} THEN Len(rows)
                ELSE (CHOOSE i \in bad : \A j \in bad : i <= j) - 1
    IN  <<CsvRow(fieldnames)>>
        \o [i \in 1..good |-> CsvRow(DictToList(fieldnames, rows[i]))]

\* with open(filename, "w", newline="", encoding="utf-8") as file:
\*     writer = csv.DictWriter(file, fieldnames=keys)
\*     writer.writeheader(); writer.writerows(parsed_data)
\* print(f"Data saved to {filename}")
WriteLines(lines, n, quota) ==
    LET written == IF quota < Len(lines) THEN quota ELSE Len(lines)
        content == Concat(lines, 1, written)
    IN  IF written < Len(lines)
        THEN [file |-> content, out |-> <<>>, exc |-> "OSError"]
        ELSE IF Len(lines) < n + 1
        THEN [file |-> content, out |-> <<>>, exc |-> "ValueError"]
        ELSE [file |-> content, out |-> <<Msg("Data saved to {}", FileName)>>,
              exc |-> "none"]

WriteCsv(fieldnames, rows, f, io) ==
    IF ~io.open_ok THEN [file |-> f, out |-> <<>>, exc |-> "OSError"]
    ELSE WriteLines(CsvLines(fieldnames, rows), Len(rows), io.quota)

\* save_to_csv without the `if not parsed_data` guard
save_to_csv_unguarded(data, f, io) == WriteCsv(keys, data, f, io)

\* get_paper.save_to_csv(parsed_data, filename): the fixed column list
save_to_csv(data, f, io) ==
    IF data = <<>>
    THEN [file |-> f, out |-> <<Msg("No data to save.", "")>>, exc |-> "none"]
    ELSE WriteCsv(keys, data, f, io)

\* cli.save_to_csv(parsed_data, filename): the first dict's keys as columns
cli_save_to_csv(data, f, io) ==
    IF data = <<>>
    THEN [file |-> f, out |-> <<Msg("No data to save.", "")>>, exc |-> "none"]
    ELSE WriteCsv(DictKeys(data[1]), data, f, io)

----------------------------------------------------------------------------
(* The two HTTP calls.  A reply is what requests.get and the methods of    *)
(* the response do: kind "conn_error" (requests.get raises a               *)
(* RequestException), "http_error" (raise_for_status raises HTTPError),    *)
(* or a body.                                                              *)

NoIds == [none |-> TRUE, list |-> <<>>]

\* fetch_pubmed_data(query, max_results).  response.json() on a body that is
\* no JSON raises requests.exceptions.JSONDecodeError, a RequestException,
\* with requests 2.27 and later, and a plain ValueError before; data.get on a
\* JSON value that is no object raises AttributeError
fetch_pubmed_data(query, max_results, reply) ==
    LET request == [url |-> "esearch.fcgi", db |-> "pubmed", term |-> query,
                    retmax |-> max_results, retmode |-> "json"]
        caught  == [request |-> request, ret |-> NoIds, exc |-> "none",
                    out |-> <<Msg("Error fetching PubMed data: {}", reply.kind)>>]
        raise(e) == [request |-> request, ret |-> NoIds, exc |-> e, out |-> <<>>]
        return(l) == [request |-> request, ret |-> [none |-> FALSE, list |-> l],
                      exc |-> "none", out |-> <<>>]
    IN  CASE reply.kind \in {"conn_error", "http_error", "not_json_request_exception"}
               -> caught
          [] reply.kind = "not_json_value_error" -> raise("ValueError")
          [] reply.kind \in {"json_not_object", "json_esearchresult_not_object"}
               -> raise("AttributeError")
          [] reply.kind \in {"json_no_esearchresult", "json_no_idlist"}
               -> return(<<>>)
          [] reply.kind = "json_idlist" -> return(reply.idlist)

NoText == [kind |-> "None", articles |-> <<>>]

\* fetch_paper_details(pubmed_ids): response.text is returned as it is
fetch_paper_details(ids, reply) ==
    LET request == [url |-> "efetch.fcgi", db |-> "pubmed",
                    id |-> Join(Comma, ids), retmode |-> "xml"]
    IN  IF reply.kind \in {"conn_error", "http_error"}
        THEN [request |-> request, ret |-> NoText,
              out |-> <<Msg("Error fetching paper details: {}", reply.kind)>>]
        ELSE [request |-> request, ret |-> reply.text, out |-> <<>>]

\* `if pubmed_ids is not None:`
IdsNotNone(ids) == ~ids.none

\* `if pubmed_ids:`: None and the empty list are false
IdsFound(ids) == ~ids.none /\ ids.list # <<>>

\* `if xml_data is not None:`
TextNotNone(text) == text.kind # "None"

\* `if xml_data:`: None and the empty str are false
TextFound(text) == text.kind \notin {"None", "empty"}

----------------------------------------------------------------------------
(* The inputs the runs are drawn from. *)

\* all sequences over S of length at most n
SeqsUpTo(S, n) == UNION {[1..k -> S] : k \in 0..n}

\* the default of --number
DefaultNumber == 10

Queries == {"cancer"}

IdLists == {<<>>, << <<"3", "1">> >>, << <<"3", "1">>, <<"7">> >>}

Jane == <<"J", "a", "n", "e">>
Doe == <<"D", "o", "e">>
Al == <<"A", "l">>
Roe == <<"R", "o", "e">>

\* the affiliation text of the specification's example, and its address
AffSpec == <<"J", "a", "n", "e", " ", "D", "o", "e", ",", " ", "A", "c", "m", "e", " ", "B", "i", "o", "t", "e", "c", "h", " ", "I", "n", "c", ",", " ", "j", "a", "n", "e", "@", "a", "c", "m", "e", ".", "c", "o", "m">>
SpecEmail == <<"j", "a", "n", "e", "@", "a", "c", "m", "e", ".", "c", "o", "m">>
AffUniv == <<"U", "n", "i", "v", " ", "X">>
AffPharma == <<"P", "H", "A", "R", "M", "A", " ", "C", "o">>
AffMail == <<"x", "@", "y", ".", "z">>
AffMailFirst == <<"b", "@", "c", ".", "d", " ", "U", "n", "i", "v">>
AffTrail == <<"B", "i", "o", "T", "e", "c", "h", "\t", "q", "@", "r", ".", "s", " ", "\n">>
AffSecond == <<"M", "y", " ", "C", "o", "m", "p", "a", "n", "y">>

Author(fore, last, affs) == [ForeName |-> fore, LastName |-> last, Affiliations |-> affs]

\* authors: with the example's affiliation; without a name and without an
\* affiliation; academic, with and without an address, the address last or
\* not; a company in capitals; trailing whitespace; two affiliations, the
\* company second; an Affiliation element without text
AuthorPool ==
    { Author(Jane, Doe, <<AffSpec>>),
      Author(Absent, Absent, <<>>),
      Author(Al, Absent, <<AffUniv>>),
      Author(Al, Roe, <<AffMail>>),
      Author(Jane, Roe, <<AffPharma>>),
      Author(None, Doe, <<AffMailFirst>>),
      Author(Absent, Roe, <<AffTrail>>),
      Author(Al, Doe, <<AffUniv, AffSecond>>),
      Author(Jane, Doe, <<None>>) }

Y2020 == <<"2", "0", "2", "0">>
M05 == <<"0", "5">>
D17 == <<"1", "7">>
Pmid7 == <<"7">>
Pmid31 == <<"3", "1">>
TitleT == <<"T">>
TitleSpecial == <<"a", ",", "\"", "b", "\n", " ", "c">>

NoPubDate == [present |-> FALSE, Year |-> Absent, Month |-> Absent, Day |-> Absent]

PubDates ==
    {NoPubDate} \cup
    [present : {TRUE}, Year : {Absent, None, Y2020}, Month : {Absent, M05},
     Day : {Absent, D17}]

Article(pmid, title, date, authors) ==
    [PMID |-> pmid, ArticleTitle |-> title, PubDate |-> date, Authors |-> authors]

\* one article for every combination of the scalar sub-fields, without authors
FieldArticles ==
    {Article(pmid, title, date, <<>>) :
        pmid \in {Absent, None, Pmid7},
        title \in {Absent, None, TitleT, TitleSpecial},
        date \in PubDates}

\* one article for every author list of at most MaxAuthors pool authors
AuthorArticles ==
    {Article(Pmid7, TitleT, NoPubDate, authors) :
        authors \in SeqsUpTo(AuthorPool, MaxAuthors)}

\* the articles that documents of several articles are made of
ArticlePool ==
    { Article(Pmid31, TitleT,
              [present |-> TRUE, Year |-> Y2020, Month |-> M05, Day |-> D17],
              <<Author(Jane, Doe, <<AffSpec>>)>>),
      Article(Absent, Absent, NoPubDate, <<>>),
      Article(Pmid7, TitleSpecial,
              [present |-> TRUE, Year |-> Y2020, Month |-> Absent, Day |-> Absent],
              <<Author(Al, Roe, <<AffMail>>), Author(Jane, Roe, <<AffPharma>>)>>),
      Article(Pmid7, None, NoPubDate, <<Author(Jane, Doe, <<None>>)>>) }

Doc(articles) == [kind |-> "doc", articles |-> articles]

\* the well-formed documents: at most MaxArticles articles
Docs ==
    {Doc(articles) : articles \in SeqsUpTo(ArticlePool, MaxArticles)}
    \cup {Doc(<<a>>) : a \in FieldArticles \cup AuthorArticles}

\* response.text: empty, not well-formed, or a document
Texts == {[kind |-> "empty", articles |-> <<>>],
          [kind |-> "malformed", articles |-> <<>>]} \cup Docs

SearchReplies ==
    [kind : {"conn_error", "http_error", "not_json_request_exception",
             "not_json_value_error", "json_not_object",
             "json_esearchresult_not_object", "json_no_esearchresult",
             "json_no_idlist"},
     idlist : {<<>>}]
    \cup [kind : {"json_idlist"}, idlist : IdLists]

FetchReplies ==
    [kind : {"conn_error", "http_error"}, text : {NoText}]
    \cup [kind : {"ok"}, text : Texts]

IoOutcomes ==
    {[open_ok |-> FALSE, quota |-> 0]}
    \cup [open_ok : {TRUE}, quota : 0..(MaxArticles + 1)]

\* the file that is at the destination before the run, if any
OldFile == <<"o", "l", "d", "\r", "\n">>

\* dicts a caller may pass to cli.save_to_csv
CliDicts ==
    { << <<K_Title, TitleT>> >>,
      << <<K_Title, None>> >>,
      << <<K_Title, TitleSpecial>>, <<K_Email, SpecEmail>> >>,
      <<>> }

CliInputs == SeqsUpTo(CliDicts, MaxArticles)

----------------------------------------------------------------------------
(* main.  The replies of the two endpoints and the behaviour of the output *)
(* device are not arguments of main(): each stage below gives the set of   *)
(* the frames the run can end in, one for every reply or device it can     *)
(* meet at that point.  A frame holds the locals of main(), what it        *)
(* printed, the requests it sent and the replies it got.                   *)

NotCalled == [called |-> FALSE, data |-> <<>>]

NoReply == [kind |-> "none", text |-> NoText]

Frame(f) ==
    [pc |-> "returned", exc |-> "none", requests |-> <<>>, stdout |-> <<>>,
     search_reply |-> NoReply, fetch_reply |-> NoReply,
     pubmed_ids |-> NoIds, xml_data |-> NoText,
     parsed_data |-> <<>>, loop_locals |-> <<>>, save_arg |-> NotCalled,
     file |-> f]

Raise(fr, e) == [fr EXCEPT !.pc = "raised", !.exc = e]

\* line 124, after save_to_csv returned or raised w
AfterSave(w, p, fr) ==
    [fr EXCEPT !.pc = IF w.exc = "none" THEN "returned" ELSE "raised",
               !.exc = w.exc,
               !.parsed_data = p.papers,
               !.loop_locals = p.locals,
               !.save_arg = [called |-> TRUE, data |-> p.papers],
               !.file = w.file,
               !.stdout = @ \o w.out]

\* lines 123-124, after parse_paper_details returned or raised p
AfterParse(p, fr) ==
    IF p.exc # "none" THEN {Raise(fr, p.exc)}
    ELSE {AfterSave(save_to_csv(p.papers, fr.file, io), p, fr) : io \in IoOutcomes}

\* lines 121-126, after fetch_paper_details returned d
AfterFetch(d, fr) ==
    IF TextFound(d.ret)
    THEN AfterParse(parse_paper_details(d.ret),
                    [fr EXCEPT !.requests = Append(@, d.request),
                               !.stdout = @ \o d.out, !.xml_data = d.ret])
    ELSE {[fr EXCEPT !.requests = Append(@, d.request),
                     !.xml_data = d.ret,
                     !.stdout = (@ \o d.out)
                                \o <<Msg("Failed to fetch paper details.", "")>>]}

\* lines 119-128, after fetch_pubmed_data returned or raised s
AfterSearch(s, fr) ==
    IF s.exc # "none" THEN {Raise(fr, s.exc)}
    ELSE IF IdsFound(s.ret)
    THEN UNION {AfterFetch(fetch_paper_details(s.ret.list, freply),
                           [fr EXCEPT !.fetch_reply = freply,
                                      !.stdout = Append(@,
                                          Msg("Found {} papers.",
                                              ToString(Len(s.ret.list))))])
                : freply \in FetchReplies}
    ELSE {[fr EXCEPT !.stdout = Append(@, Msg("No papers found for the query.", ""))]}

\* lines 117-118
Searched(s, sreply, query, f) ==
    AfterSearch(s, [Frame(f) EXCEPT
                      !.search_reply = sreply,
                      !.stdout = <<Msg("Fetching papers for query: {}", query)>> \o s.out,
                      !.requests = <<s.request>>,
                      !.pubmed_ids = s.ret])

\* main(), lines 117-128, with the arguments already parsed and the
\* destination holding f
main(query, number, f) ==
    UNION {Searched(fetch_pubmed_data(query, number, sreply), sreply, query, f)
           : sreply \in SearchReplies}

----------------------------------------------------------------------------
(* The state machine. *)

Init ==
    /\ pc = "start"
    /\ op = "none"
    /\ exc = "none"
    /\ search_reply = NoReply
    /\ fetch_reply = NoReply
    /\ requests = <<>>
    /\ stdout = <<>>
    /\ pubmed_ids = NoIds
    /\ xml_data = NoText
    /\ parsed_data = <<>>
    /\ loop_locals = <<>>
    /\ save_arg = NotCalled
    /\ file0 \in {NoFile, OldFile}
    /\ file = file0

\* one run of get_paper.main()
Main ==
    /\ pc = "start"
    /\ \E query \in Queries : \E r \in main(query, DefaultNumber, file) :
         /\ pc' = r.pc
         /\ op' = "main"
         /\ exc' = r.exc
         /\ search_reply' = r.search_reply
         /\ fetch_reply' = r.fetch_reply
         /\ requests' = r.requests
         /\ stdout' = r.stdout
         /\ pubmed_ids' = r.pubmed_ids
         /\ xml_data' = r.xml_data
         /\ parsed_data' = r.parsed_data
         /\ loop_locals' = r.loop_locals
         /\ save_arg' = r.save_arg
         /\ file' = r.file
    /\ UNCHANGED file0

\* one call of cli.save_to_csv(parsed_data)
CliSaveToCsv ==
    /\ pc = "start"
    /\ \E data \in CliInputs, io \in IoOutcomes :
         \E w \in {cli_save_to_csv(data, file, io)} :
         /\ pc' = IF w.exc = "none" THEN "returned" ELSE "raised"
         /\ op' = "cli"
         /\ exc' = w.exc
         /\ stdout' = w.out
         /\ parsed_data' = data
         /\ save_arg' = [called |-> TRUE, data |-> data]
         /\ file' = w.file
    /\ UNCHANGED <<search_reply, fetch_reply, requests, pubmed_ids, xml_data,
                   loop_locals, file0>>

Next == Main \/ CliSaveToCsv

Spec == Init /\ [][Next]_vars

----------------------------------------------------------------------------
(* What the properties below speak of. *)

\* a run of main() has ended
MainEnded == op = "main" /\ pc # "start"

\* parse_paper_details was called on a well-formed document
ParsedDoc == MainEnded /\ xml_data.kind = "doc"

\* parse_paper_details returned (main passes its result to save_to_csv)
ParseReturned == MainEnded /\ save_arg.called

Last(seq) == seq[Len(seq)]

Range(seq) == {seq[i] : i \in 1..Len(seq)}

Urls == [i \in 1..Len(requests) |-> requests[i].url]

\* the value of column k in record rec
Field(rec, k) == DictGet(rec, k, Absent)

\* the n-th smallest element of a set of numbers
Nth(S, n) == CHOOSE k \in S : Cardinality({m \in S : m < k}) = n - 1

\* the elements of seq at the positions in S, in order
Select(seq, S) == [n \in 1..Cardinality(S) |-> seq[Nth(S, n)]]

\* the affiliation text of an author: that of the first Affiliation element
HasAffText(author) ==
    author.Affiliations # <<>> /\ author.Affiliations[1] # None

AffText(author) == author.Affiliations[1]

\* c is the letter k, in either case
SameLetter(c, k) ==
    c = k \/ \E n \in 1..Len(Lower) : Lower[n] = k /\ Upper[n] = c

\* text contains word, case-insensitively
ContainsIgnoringCase(text, word) ==
    \E off \in 0..(Len(text) - Len(word)) :
        \A j \in 1..Len(word) : SameLetter(text[off + j], word[j])

\* token is the last whitespace-delimited token of text
IsLastToken(token, text) ==
    \E a \in 1..Len(text) : \E b \in a..Len(text) :
        /\ token = SubSeq(text, a, b)
        /\ \A j \in a..b : text[j] \notin Whitespace
        /\ \A j \in (b + 1)..Len(text) : text[j] \in Whitespace
        /\ a = 1 \/ text[a - 1] \in Whitespace

----------------------------------------------------------------------------
(* The reader the written file is read back with: csv.reader with the      *)
(* default dialect, on a file opened with newline="".                      *)

\* the reader's state machine, one character at a time; after_cr is the
\* state after a line that ended in "\r", whose "\n" may still follow
ReaderStart == [state |-> "start_record", field |-> <<>>, row |-> <<>>, rows |-> <<>>]

SaveField(st, next) ==
    [st EXCEPT !.state = next, !.row = Append(st.row, st.field), !.field = <<>>]

EndRow(st, c) ==
    [state |-> IF c = "\r" THEN "after_cr" ELSE "start_record",
     field |-> <<>>, row |-> <<>>,
     rows  |-> Append(st.rows, Append(st.row, st.field))]

AddChar(st, c, next) == [st EXCEPT !.state = next, !.field = Append(st.field, c)]

ReaderStep(st, c) ==
    LET state == IF st.state = "after_cr" /\ c # "\n" THEN "start_record"
                 ELSE st.state
    IN  CASE state = "after_cr" -> [st EXCEPT !.state = "start_record"]
          [] state = "start_record" /\ c \in {"\r", "\n"} ->
                [st EXCEPT !.state = IF c = "\r" THEN "after_cr" ELSE "start_record",
                           !.rows = Append(st.rows, <<>>)]
          [] state \in {"start_record", "start_field"} ->
                IF c \in {"\r", "\n"} THEN EndRow(st, c)
                ELSE IF c = "\"" THEN [st EXCEPT !.state = "in_quoted_field"]
                ELSE IF c = "," THEN SaveField(st, "start_field")
                ELSE AddChar(st, c, "in_field")
          [] state = "in_field" ->
                IF c \in {"\r", "\n"} THEN EndRow(st, c)
                ELSE IF c = "," THEN SaveField(st, "start_field")
                ELSE AddChar(st, c, "in_field")
          [] state = "in_quoted_field" ->
                IF c = "\"" THEN [st EXCEPT !.state = "quote_in_quoted_field"]
                ELSE AddChar(st, c, "in_quoted_field")
          [] state = "quote_in_quoted_field" ->
                IF c = "\"" THEN AddChar(st, c, "in_quoted_field")
                ELSE IF c = "," THEN SaveField(st, "start_field")
                ELSE IF c \in {"\r", "\n"} THEN EndRow(st, c)
                ELSE AddChar(st, c, "in_field")

\* the reader run over text[lo..hi] from state st (st is evaluated first, the
\* range is halved after, which keeps the evaluation shallow)
RECURSIVE ReaderRun(_, _, _, _)
ReaderRun(st, text, lo, hi) ==
    IF lo > hi \/ st.state = "" THEN st
    ELSE IF lo = hi THEN ReaderStep(st, text[lo])
    ELSE LET mid == (lo + hi) \div 2
         IN  ReaderRun(ReaderRun(st, text, lo, mid), text, mid + 1, hi)

\* list(csv.reader(f)) for a file f holding text, opened with newline=""
CsvRead(text) ==
    LET st == ReaderRun(ReaderStart, text, 1, Len(text))
    IN  IF st.state \in {"start_record", "after_cr"} THEN st.rows
        ELSE Append(st.rows, Append(st.row, st.field))

----------------------------------------------------------------------------
(* C1 *)

\* C1: when the identifier search yields an empty list, main issues no fetch
\* request, parses and writes nothing, reports "No papers found for the
\* query." and returns normally.
C1_EmptySearchEndsRun ==
    (MainEnded /\ ~pubmed_ids.none /\ pubmed_ids.list = <<>>) =>
        /\ Urls = <<"esearch.fcgi">>
        /\ fetch_reply = NoReply /\ xml_data = NoText
        /\ ~save_arg.called /\ parsed_data = <<>>
        /\ file = file0
        /\ Last(stdout) = Msg("No papers found for the query.", "")
        /\ pc = "returned" /\ exc = "none"

C1_Witness ==
    /\ MainEnded /\ ~pubmed_ids.none /\ pubmed_ids.list = <<>>
    /\ search_reply.kind = "json_idlist"
    /\ file0 = OldFile

----------------------------------------------------------------------------
(* C2 *)

\* the request was answered by an exception of requests.get or by an error
\* status
SearchRequestFailed == search_reply.kind \in {"conn_error", "http_error"}

FetchRequestFailed == fetch_reply.kind \in {"conn_error", "http_error"}

\* the body of the reply is of no use: no JSON, or JSON of another shape
SearchBodyUnusable ==
    search_reply.kind \in {"not_json_request_exception", "not_json_value_error",
                           "json_not_object", "json_esearchresult_not_object"}

\* the body of the reply is empty or no well-formed document
FetchBodyUnusable ==
    fetch_reply.kind = "ok" /\ fetch_reply.text.kind \in {"empty", "malformed"}

\* nothing after the failed request: no further request, none repeated, no
\* parse result, no call of save_to_csv, the destination as it was
NoLaterStage ==
    /\ Urls = (IF fetch_reply = NoReply THEN <<"esearch.fcgi">>
               ELSE <<"esearch.fcgi", "efetch.fcgi">>)
    /\ parsed_data = <<>> /\ ~save_arg.called
    /\ file = file0

\* the failure was printed
Reported ==
    \/ Msg("Error fetching PubMed data: {}", search_reply.kind) \in Range(stdout)
    \/ Msg("Error fetching paper details: {}", fetch_reply.kind) \in Range(stdout)
    \/ Msg("Failed to fetch paper details.", "") \in Range(stdout)

\* C2, as claimed: whenever the search or the fetch request fails (transport
\* error, HTTP error status, or unusable response body), the failure is
\* reported, no later stage runs, nothing is retried or written, and main
\* returns normally.
C2_EveryFailureReturnsNormally ==
    (MainEnded /\ (SearchRequestFailed \/ SearchBodyUnusable
                   \/ FetchRequestFailed \/ FetchBodyUnusable)) =>
        /\ NoLaterStage
        /\ Reported
        /\ pc = "returned" /\ exc = "none"

\* C2, amended: every such failure ends the run with no later stage, no retry
\* and no write; main reports it and returns normally when the failure is a
\* transport error or an HTTP error status (and when the search body is not
\* JSON and requests raises its own JSONDecodeError, or the fetch body is
\* empty); main raises ValueError, AttributeError or ParseError when the body
\* is not JSON under an older requests, is JSON of another shape, or is not
\* well-formed markup.
C2_FailureIsTerminal ==
    /\ (MainEnded /\ (SearchRequestFailed \/ SearchBodyUnusable
                      \/ FetchRequestFailed \/ FetchBodyUnusable))
          => NoLaterStage
    /\ (MainEnded /\ (SearchRequestFailed \/ FetchRequestFailed))
          => (Reported /\ pc = "returned" /\ exc = "none")
    /\ (MainEnded /\ ( search_reply.kind = "not_json_request_exception"
                       \/ (fetch_reply.kind = "ok" /\ fetch_reply.text.kind = "empty")))
          => (Reported /\ pc = "returned" /\ exc = "none")
    /\ (MainEnded /\ search_reply.kind = "not_json_value_error")
          => (pc = "raised" /\ exc = "ValueError")
    /\ (MainEnded /\ search_reply.kind \in {"json_not_object",
                                            "json_esearchresult_not_object"})
          => (pc = "raised" /\ exc = "AttributeError")
    /\ (MainEnded /\ fetch_reply.kind = "ok" /\ fetch_reply.text.kind = "malformed")
          => (pc = "raised" /\ exc = "ParseError")

C2_Witness ==
    /\ MainEnded /\ FetchRequestFailed
    /\ Len(pubmed_ids.list) = 2
    /\ file0 = OldFile

----------------------------------------------------------------------------
(* C3 *)

\* the column list the variant that ran uses
FieldNames == IF op = "cli" THEN DictKeys(save_arg.data[1]) ELSE keys

\* the destination holds the header and one row for every record
CompleteOutput ==
    /\ save_arg.called /\ save_arg.data # <<>>
    /\ file # NoFile
    /\ LET rows == CsvRead(file)
       IN  Len(rows) = Len(save_arg.data) + 1 /\ rows[1] = FieldNames

\* C3: at the end of every run, normal or by a failure at any step, the
\* destination holds the header and a row for every parsed record, or is as
\* it was before the run.
C3_NoPartialOutput ==
    pc # "start" => (file = file0 \/ CompleteOutput)

----------------------------------------------------------------------------
(* C4, C5 *)

\* C4: for a well-formed document of K articles parse_paper_details returns
\* K records, in document order, each with the seven keys in their order.
C4_OneRecordPerArticle ==
    ParsedDoc =>
        /\ ParseReturned
        /\ Len(parsed_data) = Len(xml_data.articles)
        /\ \A i \in 1..Len(parsed_data) :
              /\ DictKeys(parsed_data[i]) = keys
              /\ Field(parsed_data[i], K_PubMedID)
                   = FindText(xml_data.articles[i].PMID, None)

\* C5: parse_paper_details raises no error for a well-formed document,
\* whatever sub-fields are missing or empty.
C5_NoErrorOnMissingSubFields ==
    ParsedDoc => exc \notin {"TypeError", "ParseError"}

----------------------------------------------------------------------------
(* C6, C7, C8: the fields of the record of every article. *)

\* the authors of article i whose affiliation text holds a keyword, in any case
NonAcademic(i) ==
    LET authors == xml_data.articles[i].Authors
    IN  {k \in 1..Len(authors) :
            /\ HasAffText(authors[k])
            /\ \E word \in Keywords : ContainsIgnoringCase(AffText(authors[k]), word)}

\* the affiliation texts of the authors of article i
AffTexts(i) ==
    LET authors == xml_data.articles[i].Authors
    IN  [k \in 1..Len(authors) |->
            IF HasAffText(authors[k]) THEN AffText(authors[k]) ELSE <<>>]

\* C6: the non-academic names are the full names of exactly the authors whose
\* affiliation text contains "company", "pharma" or "biotech" in any case,
\* and the company affiliations are the unmodified texts of the same authors,
\* both in author order.
C6_NonAcademicAuthors ==
    ParseReturned =>
        \A i \in 1..Len(parsed_data) :
            LET l == loop_locals[i] IN
            /\ Len(l.authors) = Len(xml_data.articles[i].Authors)
            /\ l.non_academic_authors = Select(l.authors, NonAcademic(i))
            /\ l.company_affiliations = Select(AffTexts(i), NonAcademic(i))
            /\ Field(parsed_data[i], K_NonAcademicAuthors)
                 = Join(CommaSpace, l.non_academic_authors)
            /\ Field(parsed_data[i], K_CompanyAffiliations)
                 = Join(SemicolonSpace, l.company_affiliations)

\* the example of the specification next to an author who is not classified
C6_Witness ==
    /\ ParseReturned
    /\ \E i \in 1..Len(parsed_data) :
          /\ Len(xml_data.articles[i].Authors) = 2
          /\ NonAcademic(i) = {2}
          /\ HasAffText(xml_data.articles[i].Authors[1])
          /\ loop_locals[i].company_affiliations = <<AffSpec>>
          /\ Field(parsed_data[i], K_Email) = SpecEmail

\* the authors of article i whose affiliation text holds an "@"
WithAt(i) ==
    LET authors == xml_data.articles[i].Authors
    IN  {k \in 1..Len(authors) :
            /\ HasAffText(authors[k])
            /\ \E j \in 1..Len(AffText(authors[k])) : AffText(authors[k])[j] = "@"}

TextOrEmpty(el) == IF el \in {Absent, None} THEN <<>> ELSE el

\* C8: Publication Date is "Unknown" without a PubDate node or without a
\* non-empty Year, and otherwise YEAR-MONTH-DAY with an absent Month or Day
\* empty, so that Year 2020 alone gives "2020--".
C8_PublicationDate ==
    ParseReturned =>
        \A i \in 1..Len(parsed_data) :
            LET d    == xml_data.articles[i].PubDate
                date == Field(parsed_data[i], K_PublicationDate)
            IN  /\ (~d.present \/ d.Year \in {Absent, None}) => date = Unknown
                /\ (d.present /\ d.Year \notin {Absent, None}) =>
                      date = d.Year \o <<"-">> \o TextOrEmpty(d.Month)
                             \o <<"-">> \o TextOrEmpty(d.Day)
                /\ (d.present /\ d.Year = <<"2", "0", "2", "0">>
                    /\ d.Month = Absent /\ d.Day = Absent) =>
                      date = <<"2", "0", "2", "0", "-", "-">>

C8_Witness ==
    /\ ParseReturned
    /\ \E i \in 1..Len(parsed_data) :
          /\ xml_data.articles[i].PubDate.present
          /\ xml_data.articles[i].PubDate.Year = Y2020
          /\ xml_data.articles[i].PubDate.Month = Absent
          /\ xml_data.articles[i].PubDate.Day = Absent
          /\ Field(parsed_data[i], K_PublicationDate) = <<"2", "0", "2", "0", "-", "-">>

----------------------------------------------------------------------------
(* C9, C10: the writer. *)

\* main wrote the records and returned
Written == ParseReturned /\ parsed_data # <<>> /\ pc = "returned"

Values(rec) == [j \in 1..Len(rec) |-> rec[j][2]]

\* C9, as claimed: reading the written file back gives the header and, in
\* order, one row per record whose values equal the record's values.
C9_RoundTripExact ==
    Written =>
        CsvRead(file) = <<keys>> \o [i \in 1..Len(parsed_data) |-> Values(parsed_data[i])]

\* what a reader gives for a value: the empty string for None
ReadBack(v) == IF v = None THEN <<>> ELSE v

\* C9, amended: reading the written file back gives the header and, in
\* order, one row per record whose values equal the record's values, a
\* PubMedID or Title that is None being read back as the empty string.
C9_RoundTripNoneAsEmpty ==
    Written =>
        CsvRead(file) =
            <<keys>> \o [i \in 1..Len(parsed_data) |->
                            [j \in 1..Len(keys) |-> ReadBack(Values(parsed_data[i])[j])]]

\* two records, one with a value None, one whose title needs quoting
C9_Witness ==
    /\ Written
    /\ Len(parsed_data) = 2
    /\ \E i \in 1..2 : Field(parsed_data[i], K_PubMedID) = None
    /\ \E i \in 1..2 : Field(parsed_data[i], K_Title) = TitleSpecial
    /\ Len(CsvRead(file)) = 3

\* C10: called with no records, save_to_csv (either variant) prints "No data
\* to save.", returns normally and leaves the destination as it was.
C10_EmptyDataNoWrite ==
    (pc # "start" /\ save_arg.called /\ save_arg.data = <<>>) =>
        /\ Last(stdout) = Msg("No data to save.", "")
        /\ pc = "returned" /\ exc = "none"
        /\ file = file0

C10_Witness ==
    /\ MainEnded /\ save_arg.called /\ save_arg.data = <<>>
    /\ file0 = OldFile /\ file = OldFile

====
